---- MODULE Spec2Model ----
(***************************************************************************)
(* Relay coordinator of the smart-meter API server (src/api_server.py):    *)
(* the globals relay_state, pending_command and command_timestamp and the  *)
(* two handlers of /api/relay-control that read and write them; beside it  *)
(* the cache of readings and the table of measurements.                    *)
(*                                                                         *)
(*   Spec          every handler runs to completion before the next starts *)
(*   SpecScenario  the same on a clock that moves in seconds               *)
(*   SpecLive      the same with polls and the clock under weak fairness   *)
(*   SpecDevice    the dashboard and one cooperating device                *)
(*   SpecBody      whole handlers with every request body a client sends   *)
(*   SpecConc      handlers run in threads and interleave between the      *)
(*                 single reads and writes of the globals (no lock)        *)
(*   SpecCache     POST /api/arduino-data and recent_readings              *)
(*   SpecRows      the handlers that write the table 'measurements'        *)
(***************************************************************************)
EXTENDS Integers, Sequences, FiniteSets, TLC

\* Python's None (JSON null in a response).
None == "none"

\* None in command_timestamp, whose other values are numbers: a value apart
\* from every time of the clock.
NoTime == 0 - 1

\* src/api_server.py:47
COMMAND_TIMEOUT_SECONDS == 30

\* The clock is read in whole seconds and stops at MaxTime.
MaxTime == 62

\* Number of handler calls the observation window hist remembers.
HistLen == 3

\* Number of request threads of the server that run handlers at once.
NumThreads == 2

Threads == 1..NumThreads

\* Values a client may send under "status" or "command".
RawValues == {"on", "off", "ON", "null"}

\* Time passes in steps of exactly the timeout, or one second more.
TickSteps == {COMMAND_TIMEOUT_SECONDS, COMMAND_TIMEOUT_SECONDS + 1}

\* The clock of the worked example: steps of one and of five seconds, up to
\* ScenarioEnd.
ScenarioSteps == {1, 5}

ScenarioEnd == 8

\* The worked example sends no other value than "on".
ScenarioValues == {"on"}

\* The readings the cache keeps (src/api_server.py:100).
CacheLimit == 100

\* Readings accepted in a run of SpecCache.
MaxReadings == 103

\* Rows the table 'measurements' is given in a run of SpecRows.
MaxRows == 3

VARIABLES
    relay_state,        \* 'on' | 'off'
    pending_command,    \* None | 'on' | 'off'
    command_timestamp,  \* NoTime | time of datetime.now() at the command
    now,                \* the wall clock, in seconds
    hist,               \* the last HistLen handler calls, oldest first
    pre,                \* the three globals as they were before the last call
    issued_at,          \* time of the most recent IssueCommand, NoTime if none
    pc,                 \* SpecConc: the line each request thread is at
    loc,                \* SpecConc: each thread's call, its locals and response
    base,               \* SpecConc: the globals when no handler was running
    device,             \* SpecDevice: the command the device has to answer
    last_command,       \* SpecDevice: the most recent command and its fate
    request,            \* SpecBody, SpecCache: the last request and its outcome
    reports,            \* SpecBody: the statuses reported since the last command
    measurements,       \* SpecRows: the rows of the table 'measurements'
    next_id,            \* SpecRows: the id the table gives to its next row
    recent_readings,    \* SpecCache: the cache of readings, newest first
    received            \* SpecCache: the server's clock, one tick a reading

vars == <<relay_state, pending_command, command_timestamp, now, hist, pre,
          issued_at, pc, loc, base, device, last_command, request,
          reports, measurements, next_id, recent_readings, received>>

\* The measurement table and the cache of readings, which no handler of
\* /api/relay-control touches.
stores == <<measurements, next_id, recent_readings, received>>

\* What the observers of Spec and the threads of SpecConc keep.
observed == <<hist, pre, issued_at, device, last_command, request, reports, stores>>

threads == <<pc, loc, base>>

\* The three globals as one record.
State(rs, p, ts) == [relay |-> rs, pending |-> p, ts |-> ts]

Cur == State(relay_state, pending_command, command_timestamp)

\* The other target.
Opposite(t) == IF t = "on" THEN "off" ELSE "on"

--------------------------------------------------------------------------
\* Mutant of Normalize: the value is stored as sent.
NormalizeAsSent(v) == v

\* Mutant of Normalize: the comparison with 'on' ignores the case.
NormalizeIgnoringCase(v) == IF v \in {"on", "ON"} THEN "on" ELSE "off"

\* 'on' if body[key] == 'on' else 'off'
Normalize(v) == IF v = "on" THEN "on" ELSE "off"

\* Mutants of Expired: expiry already at the timeout, and one second late.
ExpiredAtTimeout(ts, t) == t - ts >= COMMAND_TIMEOUT_SECONDS

ExpiredLate(ts, t) == t - ts > COMMAND_TIMEOUT_SECONDS + 1

\* datetime.now() - command_timestamp > timedelta(seconds=COMMAND_TIMEOUT_SECONDS)
Expired(ts, t) == t - ts > COMMAND_TIMEOUT_SECONDS

\* Mutant of GetRelayControl: the expiry block left out.
GetRelayControlNoExpiry(s, t) ==
    [state |-> s, command |-> s.pending, status |-> s.relay]

\* Mutant of GetRelayControl: an expired command takes the optimistic
\* relay_state back with it.
GetRelayControlRollsBack(s, t) ==
    LET s2 == IF s.pending # None /\ s.ts # NoTime /\ Expired(s.ts, t)
              THEN [relay |-> Opposite(s.pending), pending |-> None, ts |-> NoTime]
              ELSE s
    IN  [state |-> s2, command |-> s2.pending, status |-> s2.relay]

\* Mutant of GetRelayControl: the command is handed out once, and removed.
GetRelayControlConsumes(s, t) ==
    LET s2 == IF s.pending # None /\ s.ts # NoTime /\ Expired(s.ts, t)
              THEN [s EXCEPT !.pending = None, !.ts = NoTime]
              ELSE s
    IN  [state |-> [s2 EXCEPT !.pending = None, !.ts = NoTime],
         command |-> s2.pending, status |-> s2.relay]

\* GET /api/relay-control run as a whole at time t: the globals it leaves
\* and the body it returns.
GetRelayControl(s, t) ==
    LET s2 == IF s.pending # None /\ s.ts # NoTime /\ Expired(s.ts, t)
              THEN [s EXCEPT !.pending = None, !.ts = NoTime]
              ELSE s
    IN  [state |-> s2, command |-> s2.pending, status |-> s2.relay]

\* Mutants of PostStatus: the confirmation forgets the timestamp; any report
\* confirms; no report confirms.
PostStatusKeepsTimestamp(s, v) ==
    LET new_status == Normalize(v)
        s1 == [s EXCEPT !.relay = new_status]
        s2 == IF s1.pending = new_status
              THEN [s1 EXCEPT !.pending = None]
              ELSE s1
    IN  [state |-> s2, command |-> None, status |-> s2.relay]

PostStatusClearsAlways(s, v) ==
    LET new_status == Normalize(v)
        s2 == [relay |-> new_status, pending |-> None, ts |-> NoTime]
    IN  [state |-> s2, command |-> None, status |-> s2.relay]

PostStatusNeverClears(s, v) ==
    LET new_status == Normalize(v)
        s2 == [s EXCEPT !.relay = new_status]
    IN  [state |-> s2, command |-> None, status |-> s2.relay]

\* POST /api/relay-control with 'status' in the body, run as a whole.
PostStatus(s, v) ==
    LET new_status == Normalize(v)
        s1 == [s EXCEPT !.relay = new_status]
        s2 == IF s1.pending = new_status
              THEN [s1 EXCEPT !.pending = None, !.ts = NoTime]
              ELSE s1
    IN  [state |-> s2, command |-> None, status |-> s2.relay]

\* Mutant of PostCommand: relay_state waits for the device's confirmation.
PostCommandNotOptimistic(s, v, t) ==
    LET command == Normalize(v)
        s2 == [s EXCEPT !.pending = command, !.ts = t]
    IN  [state |-> s2, command |-> command, status |-> s2.relay]

\* Mutants of PostCommand: a command that replaces a pending one inherits
\* its timestamp; a command for the target already pending is dropped.
PostCommandKeepsFirstTimestamp(s, v, t) ==
    LET command == Normalize(v)
        s2 == [relay |-> command, pending |-> command,
               ts |-> IF s.pending # None THEN s.ts ELSE t]
    IN  [state |-> s2, command |-> command, status |-> s2.relay]

PostCommandIgnoresRepeat(s, v, t) ==
    LET command == Normalize(v)
        s2 == IF s.pending = command
              THEN [s EXCEPT !.relay = command]
              ELSE [relay |-> command, pending |-> command, ts |-> t]
    IN  [state |-> s2, command |-> command, status |-> s2.relay]

\* POST /api/relay-control with 'command' (and no 'status') in the body,
\* run as a whole at time t.
PostCommand(s, v, t) ==
    LET command == Normalize(v)
        s2 == [relay |-> command, pending |-> command, ts |-> t]
    IN  [state |-> s2, command |-> command, status |-> s2.relay]

--------------------------------------------------------------------------
(***************************************************************************)
(* The body of a POST /api/relay-control, as request.json hands it to the  *)
(* handler: a JSON object with or without the keys 'status' and 'command', *)
(* another JSON value (null, a number, a string, a list), or nothing that  *)
(* parses.  A body is a record: kind, the values under the two keys of an  *)
(* object, and text, the characters of a string or the one item of a list. *)
(***************************************************************************)

\* A key the object does not have.
Absent == "absent"

\* JSON values under a key, written as their JSON text: the strings "on",
\* "off" and "ON", null, true and a number.
BodyValues == RawValues \cup {"true", "7"}

Objects ==
    [kind : {"object"}, status : BodyValues \cup {Absent},
     command : BodyValues \cup {Absent}, text : {""}]

\* Bodies that are no object: no JSON at all, null, a number, the strings
\* "status", "command" and "on", and the lists ["status"] and ["command"].
NonObjects ==
    [kind : {"missing", "null", "number"}, status : {Absent},
     command : {Absent}, text : {""}]
    \cup [kind : {"string"}, status : {Absent}, command : {Absent},
          text : {"status", "command", "on"}]
    \cup [kind : {"list"}, status : {Absent}, command : {Absent},
          text : {"status", "command"}]

Bodies == Objects \cup NonObjects

\* body = request.json raises (or, in older Flask, yields None) when the
\* request carries no JSON; `key in body` raises TypeError on None and on a
\* number.  Both end in the except clause.
InRaises(body) == body.kind \in {"missing", "null", "number"}

\* Python's `key in body` where it does not raise: a key of the object, a
\* substring of the string, an item of the list.
In(key, body) ==
    IF body.kind = "object"
    THEN (IF key = "status" THEN body.status ELSE body.command) # Absent
    ELSE body.text = key

\* body[key] raises TypeError on a string and on a list (the index is a str).
SubscriptRaises(body) == body.kind # "object"

\* The response of a request that ended in a 400, from the globals s as the
\* handler left them.
Rejected(s, error) ==
    [state |-> s, op |-> "rejected", arg |-> None, command |-> None,
     status |-> None, code |-> 400, error |-> error]

\* The response of a request that went through one of the two branches.
Accepted(op, arg, out) ==
    [state |-> out.state, op |-> op, arg |-> arg, command |-> out.command,
     status |-> out.status, code |-> 200, error |-> None]

\* Mutants of PostRelayControl: a body without either key counts as a
\* command with no value; 'command' is looked at before 'status'; relay_state
\* is written before body['status'] is read.
PostRelayControlDefaultsToCommand(s, body, t) ==
    IF InRaises(body) THEN Rejected(s, "Invalid JSON")
    ELSE IF In("status", body)
    THEN IF SubscriptRaises(body) THEN Rejected(s, "Invalid JSON")
         ELSE Accepted("report", Normalize(body.status), PostStatus(s, body.status))
    ELSE IF SubscriptRaises(body) THEN Rejected(s, "Invalid JSON")
         ELSE Accepted("issue", Normalize(body.command),
                       PostCommand(s, body.command, t))

PostRelayControlCommandFirst(s, body, t) ==
    IF InRaises(body) THEN Rejected(s, "Invalid JSON")
    ELSE IF In("command", body)
    THEN IF SubscriptRaises(body) THEN Rejected(s, "Invalid JSON")
         ELSE Accepted("issue", Normalize(body.command),
                       PostCommand(s, body.command, t))
    ELSE IF In("status", body)
    THEN IF SubscriptRaises(body) THEN Rejected(s, "Invalid JSON")
         ELSE Accepted("report", Normalize(body.status), PostStatus(s, body.status))
    ELSE Rejected(s, "Invalid request body")

PostRelayControlWritesBeforeRead(s, body, t) ==
    IF InRaises(body) THEN Rejected(s, "Invalid JSON")
    ELSE IF In("status", body)
    THEN IF SubscriptRaises(body)
         THEN Rejected([s EXCEPT !.relay = "off"], "Invalid JSON")
         ELSE Accepted("report", Normalize(body.status), PostStatus(s, body.status))
    ELSE IF In("command", body)
    THEN IF SubscriptRaises(body) THEN Rejected(s, "Invalid JSON")
         ELSE Accepted("issue", Normalize(body.command),
                       PostCommand(s, body.command, t))
    ELSE Rejected(s, "Invalid request body")

\* POST /api/relay-control with any body, run as a whole at time t: an
\* exception raised inside the try ends in the except clause's 400 with the
\* globals as they are at that point; a body with neither key ends in the
\* 400 after the two branches.
PostRelayControl(s, body, t) ==
    IF InRaises(body) THEN Rejected(s, "Invalid JSON")
    ELSE IF In("status", body)
    THEN IF SubscriptRaises(body) THEN Rejected(s, "Invalid JSON")
         ELSE Accepted("report", Normalize(body.status), PostStatus(s, body.status))
    ELSE IF In("command", body)
    THEN IF SubscriptRaises(body) THEN Rejected(s, "Invalid JSON")
         ELSE Accepted("issue", Normalize(body.command),
                       PostCommand(s, body.command, t))
    ELSE Rejected(s, "Invalid request body")

--------------------------------------------------------------------------
\* The observation window: the last HistLen calls.
Remember(h, call) ==
    LET all == Append(h, call)
    IN  IF Len(all) > HistLen THEN Tail(all) ELSE all

\* One handler call as the client saw it: what it asked, when, and the body
\* it got back (command is None where the body has no such key).
Call(op, arg, out) ==
    [op |-> op, arg |-> arg, time |-> now,
     command |-> out.command, status |-> out.status]

\* A thread that runs no handler.
NoCall ==
    [op |-> None, arg |-> None, t0 |-> 0, t1 |-> 0,
     command |-> None, status |-> None, code |-> 0]

\* A device with no command to answer.
Nothing == [command |-> None, issued |-> NoTime]

\* A request without a body.
NoBody == [kind |-> None, status |-> Absent, command |-> Absent, text |-> ""]

\* A request as its client saw it: the body sent, the time, and the status
\* code and the body of the response.
Request(body, out) ==
    [op |-> out.op, body |-> body, time |-> now, code |-> out.code,
     error |-> out.error, command |-> out.command, status |-> out.status]

\* No request has been made.
NoRequest ==
    [op |-> None, body |-> NoBody, time |-> 0, code |-> 0, error |-> None,
     command |-> None, status |-> None]

\* The globals and the window after a handler that ran as a whole.
Commit(op, arg, out) ==
    /\ relay_state' = out.state.relay
    /\ pending_command' = out.state.pending
    /\ command_timestamp' = out.state.ts
    /\ hist' = Remember(hist, Call(op, arg, out))
    /\ pre' = Cur
    /\ UNCHANGED threads

Init ==
    /\ relay_state = "off"
    /\ pending_command = None
    /\ command_timestamp = NoTime
    /\ now = 0
    /\ hist = <<>>
    /\ pre = State("off", None, NoTime)
    /\ issued_at = NoTime
    /\ pc = [i \in Threads |-> "idle"]
    /\ loc = [i \in Threads |-> NoCall]
    /\ base = State("off", None, NoTime)
    /\ device = Nothing
    /\ last_command = [target |-> None, fate |-> None]
    /\ request = NoRequest
    /\ reports = {}
    /\ measurements = {}
    /\ next_id = 1
    /\ recent_readings = <<>>
    /\ received = 0

\* The device polls: GET /api/relay-control.
PollPending ==
    /\ Commit("poll", None, GetRelayControl(Cur, now))
    /\ UNCHANGED <<now, issued_at, device, last_command, request, reports, stores>>

\* The device reports: POST /api/relay-control {"status": v}.
ReportStatus(v) ==
    /\ Commit("report", Normalize(v), PostStatus(Cur, v))
    /\ UNCHANGED <<now, issued_at, device, last_command, request, reports, stores>>

\* The dashboard commands: POST /api/relay-control {"command": v}.
IssueCommand(v) ==
    /\ Commit("issue", Normalize(v), PostCommand(Cur, v, now))
    /\ issued_at' = now
    /\ UNCHANGED <<now, device, last_command, request, reports, stores>>

\* Mutant of Tick: a timer expires the command as soon as it is too old.
TickWithTimer(d) ==
    /\ now + d <= MaxTime
    /\ now' = now + d
    /\ IF pending_command # None /\ Expired(command_timestamp, now + d)
       THEN pending_command' = None /\ command_timestamp' = NoTime
       ELSE UNCHANGED <<pending_command, command_timestamp>>
    /\ UNCHANGED <<relay_state, observed, threads>>

\* d seconds pass.
Tick(d) ==
    /\ now + d <= MaxTime
    /\ now' = now + d
    /\ UNCHANGED <<relay_state, pending_command, command_timestamp>>
    /\ UNCHANGED <<observed, threads>>

Next ==
    \/ PollPending
    \/ \E v \in RawValues : ReportStatus(v)
    \/ \E v \in RawValues : IssueCommand(v)
    \/ \E d \in TickSteps : Tick(d)

Spec == Init /\ [][Next]_vars

\* SpecScenario: the same handlers on a clock that moves in seconds.
\* d seconds pass.
Pass(d) ==
    /\ now + d <= ScenarioEnd
    /\ now' = now + d
    /\ UNCHANGED <<relay_state, pending_command, command_timestamp>>
    /\ UNCHANGED <<observed, threads>>

NextScenario ==
    \/ PollPending
    \/ \E v \in ScenarioValues : ReportStatus(v)
    \/ \E v \in ScenarioValues : IssueCommand(v)
    \/ \E d \in ScenarioSteps : Pass(d)

SpecScenario == Init /\ [][NextScenario]_vars

\* SpecLive: the device keeps polling and time keeps passing.  The clock of
\* the model stops at MaxTime, so the dashboard sends its commands while two
\* timeouts of time remain: after the last command, time still passes by
\* more than the timeout.
IssueEarly(v) ==
    /\ now + 2 * COMMAND_TIMEOUT_SECONDS <= MaxTime
    /\ IssueCommand(v)

NextLive ==
    \/ PollPending
    \/ \E v \in RawValues : ReportStatus(v)
    \/ \E v \in RawValues : IssueEarly(v)
    \/ \E d \in TickSteps : Tick(d)

SpecLive ==
    /\ Init /\ [][NextLive]_vars
    /\ WF_vars(PollPending)
    /\ WF_vars(\E d \in TickSteps : Tick(d))

(***************************************************************************)
(* SpecDevice: the dashboard and one cooperating device.  The device polls *)
(* and answers every command it receives with a report of that command     *)
(* before the command's timeout, then polls again.  The dashboard stops    *)
(* sending commands when the clock of the model can no longer move.        *)
(***************************************************************************)

\* The device polls and keeps the command of the response to act on it.
DevicePoll ==
    /\ device.command = None
    /\ LET out == GetRelayControl(Cur, now)
       IN  /\ Commit("poll", None, out)
           /\ device' = [command |-> out.command, issued |-> out.state.ts]
           /\ last_command' =
                 IF pending_command # None /\ out.state.pending = None
                 THEN [last_command EXCEPT !.fate = "expired"]
                 ELSE last_command
    /\ UNCHANGED <<now, issued_at, request, reports, stores>>

\* The device has switched the relay and reports the command it received.
DeviceReport ==
    /\ device.command # None
    /\ Commit("report", device.command, PostStatus(Cur, device.command))
    /\ device' = Nothing
    /\ last_command' =
          IF pending_command = device.command
          THEN [last_command EXCEPT !.fate = "confirmed"]
          ELSE last_command
    /\ UNCHANGED <<now, issued_at, request, reports, stores>>

\* The dashboard sends a command.
DashboardCommand(v) ==
    /\ now + COMMAND_TIMEOUT_SECONDS <= MaxTime
    /\ Commit("issue", Normalize(v), PostCommand(Cur, v, now))
    /\ issued_at' = now
    /\ last_command' = [target |-> Normalize(v), fate |-> "pending"]
    /\ UNCHANGED <<now, device, request, reports, stores>>

\* d seconds pass, but not so many that the device answers after the
\* timeout of the command it holds.
Wait(d) ==
    /\ device.command # None =>
          now + d <= device.issued + COMMAND_TIMEOUT_SECONDS
    /\ Tick(d)

NextDevice ==
    \/ DevicePoll
    \/ DeviceReport
    \/ \E v \in RawValues : DashboardCommand(v)
    \/ \E d \in TickSteps : Wait(d)

SpecDevice ==
    /\ Init /\ [][NextDevice]_vars
    /\ WF_vars(DevicePoll)
    /\ WF_vars(DeviceReport)
    /\ WF_vars(\E d \in TickSteps : Wait(d))

(***************************************************************************)
(* SpecBody: the two handlers with every body a client may send.  The last *)
(* request and its outcome are kept in request, the globals it found in    *)
(* pre; the window hist is not used.                                       *)
(***************************************************************************)

\* POST /api/relay-control with the body `body`.
PostBody(body) ==
    /\ LET out == PostRelayControl(Cur, body, now)
       IN  /\ relay_state' = out.state.relay
           /\ pending_command' = out.state.pending
           /\ command_timestamp' = out.state.ts
           /\ request' = Request(body, out)
           /\ issued_at' = IF out.op = "issue" THEN now ELSE issued_at
           /\ reports' = IF out.op = "issue" THEN {}
                         ELSE IF out.op = "report" THEN reports \cup {out.arg}
                         ELSE reports
    /\ pre' = Cur
    /\ UNCHANGED <<now, hist, device, last_command, stores, threads>>

\* GET /api/relay-control.
GetBody ==
    /\ LET out == GetRelayControl(Cur, now)
       IN  /\ relay_state' = out.state.relay
           /\ pending_command' = out.state.pending
           /\ command_timestamp' = out.state.ts
           /\ request' = Request(NoBody, [op |-> "poll", code |-> 200, error |-> None,
                                          command |-> out.command,
                                          status |-> out.status])
    /\ pre' = Cur
    /\ UNCHANGED <<now, hist, issued_at, reports, device, last_command, stores,
                   threads>>

NextBody ==
    \/ \E body \in Bodies : PostBody(body)
    \/ GetBody
    \/ \E d \in TickSteps : Tick(d)

SpecBody == Init /\ [][NextBody]_vars

(***************************************************************************)
(* SpecCache: POST /api/arduino-data and the in-memory cache               *)
(* recent_readings.  The server's clock, received, moves by one with every *)
(* reading that is stamped; an entry of the cache is known by its          *)
(* timestamp.                                                              *)
(***************************************************************************)

\* JSON values under 'current': two numbers, true (a bool is an int to
\* isinstance), a string and null.
CurrentValues == {"5", "0.5", "true", "abc", "null"}

\* Bodies of POST /api/arduino-data: objects with or without 'current', and
\* bodies that are no object (nothing that parses, null, the string
\* "current", the list ["current"]).
ReadingBodies ==
    [kind : {"object"}, current : CurrentValues \cup {Absent}, text : {""}]
    \cup [kind : {"missing", "null"}, current : {Absent}, text : {""}]
    \cup [kind : {"string", "list"}, current : {Absent}, text : {"current"}]

\* isinstance(data['current'], (int, float))
IsNumber(v) == v \in {"5", "0.5", "true"}

\* Mutant of Trimmed: the cache is cut one entry late.
TrimmedLate(readings) ==
    IF Len(readings) > CacheLimit + 1
    THEN SubSeq(readings, 1, CacheLimit + 1)
    ELSE readings

\* if len(recent_readings) > 100: recent_readings[:] = recent_readings[:100]
Trimmed(readings) ==
    IF Len(readings) > CacheLimit
    THEN SubSeq(readings, 1, CacheLimit)
    ELSE readings

\* Mutant of PostArduinoData: the reading is cached before it is validated.
PostArduinoDataCachesFirst(readings, data, t) ==
    IF data.kind # "object"
    THEN [readings |-> readings, code |-> 500]
    ELSE IF data.current = Absent \/ ~IsNumber(data.current)
    THEN [readings |-> Trimmed(<<[timestamp |-> t]>> \o readings), code |-> 400]
    ELSE [readings |-> Trimmed(<<[timestamp |-> t]>> \o readings), code |-> 200]

\* post_arduino_data run as a whole with the clock at t: the cache it leaves
\* and the status code.  `'current' in data` raises on None, data['current']
\* raises on a string and on a list: the except clause answers 500.
PostArduinoData(readings, data, t) ==
    IF data.kind # "object"
    THEN [readings |-> readings, code |-> 500]
    ELSE IF data.current = Absent \/ ~IsNumber(data.current)
    THEN [readings |-> readings, code |-> 400]
    ELSE [readings |-> Trimmed(<<[timestamp |-> t]>> \o readings), code |-> 200]

\* POST /api/arduino-data with the body `data`.
PostReading(data) ==
    /\ received < MaxReadings
    /\ LET out == PostArduinoData(recent_readings, data, received + 1)
       IN  /\ recent_readings' = out.readings
           /\ received' = IF out.code = 200 THEN received + 1 ELSE received
           /\ request' = [op |-> "reading", body |-> data,
                           time |-> received + 1, code |-> out.code]
    /\ UNCHANGED <<relay_state, pending_command, command_timestamp, now, hist,
                   pre, issued_at, device, last_command, reports,
                   measurements, next_id, threads>>

NextCache == \E data \in ReadingBodies : PostReading(data)

SpecCache == Init /\ [][NextCache]_vars

(***************************************************************************)
(* SpecRows: the handlers that write the table 'measurements', each run as *)
(* a whole, with Supabase configured and answering.  A row carries id,     *)
(* start_time, end_time and is_active.  Where the code takes data[0] of a  *)
(* select, any row of the result may be the first.                         *)
(***************************************************************************)

\* 'start_time' of a request: two spellings of one instant and another
\* instant, or nothing.
StartTimes == {"10:00Z", "10:00+00:00", "11:00Z"}

\* 'end_time' of a request.
EndTimes == {"12:00Z"}

\* 'total_cost' of a request: a number, and a value float() raises on.
CostValues == {"1.5", "abc"}

\* float(total_cost) raises ValueError or TypeError; the except clause of
\* the handler answers 500.
FloatRaises(total_cost) == total_cost = "abc"

\* normalize_to_utc: the offset +00:00 is written Z.
normalize_to_utc(ts_str) ==
    IF ts_str = "10:00+00:00" THEN "10:00Z" ELSE ts_str

\* .eq('is_active', True)
ActiveRows(rows) == {r \in rows : r.is_active}

\* Mutant of DeactivateAll: the update reaches no row.
DeactivateNone(rows) == rows

\* .update({'is_active': False}).eq('is_active', True)
DeactivateAll(rows) == {[r EXCEPT !.is_active = FALSE] : r \in rows}

\* .update(...).eq('id', r.id): the row r becomes the row `to`.
UpdateRow(rows, r, to) == (rows \ {r}) \cup {to}

\* Mutant of Ended: the row keeps is_active.
EndedStillActive(r, start, end) ==
    [r EXCEPT !.start_time = start, !.end_time = end]

\* The row r after update({'end_time': ..., 'is_active': False, ...}).
Ended(r, start, end) ==
    [r EXCEPT !.start_time = start, !.end_time = end, !.is_active = FALSE]

\* What a handler leaves in request: the call, its status code and the id
\* of the row it updated or inserted (0 if none).
RowRequest(op, start, end, code, touched) ==
    [op |-> op, start_time |-> start, end_time |-> end, code |-> code,
     touched |-> touched]

\* The variables no handler of the table writes.
others ==
    <<relay_state, pending_command, command_timestamp, now, hist, pre,
      issued_at, device, last_command, reports, recent_readings, received,
      threads>>

\* .insert(row): the table numbers the row.
InsertRow(start, end, active) ==
    /\ next_id <= MaxRows
    /\ measurements' = measurements \cup
          {[id |-> next_id, start_time |-> start, end_time |-> end,
            is_active |-> active]}
    /\ next_id' = next_id + 1

\* POST /api/measurements without start_time: 400.
SaveWithoutStart(end) ==
    /\ request' = RowRequest("save", None, end, 400, 0)
    /\ UNCHANGED <<measurements, next_id, others>>

\* POST /api/measurements with end_time: the active row with this
\* start_time, or else any active row, is ended; with no active row a
\* completed row is inserted.  float(total_cost) is evaluated before each of
\* the three writes is sent.
SaveEnded(start, end, total_cost) ==
    /\ LET start_time_utc == normalize_to_utc(start)
           existing == {r \in ActiveRows(measurements) :
                           r.start_time = start_time_utc}
           any_active == ActiveRows(measurements)
       IN  IF FloatRaises(total_cost)
           THEN /\ request' = RowRequest("save", start, end, 500, 0)
                /\ UNCHANGED <<measurements, next_id>>
           ELSE IF existing # {}
           THEN \E r \in existing :
                   /\ measurements' =
                         UpdateRow(measurements, r, Ended(r, r.start_time, end))
                   /\ request' = RowRequest("save", start, end, 200, r.id)
                   /\ UNCHANGED next_id
           ELSE IF any_active # {}
           THEN \E r \in any_active :
                   /\ measurements' =
                         UpdateRow(measurements, r, Ended(r, start_time_utc, end))
                   /\ request' = RowRequest("save", start, end, 200, r.id)
                   /\ UNCHANGED next_id
           ELSE /\ InsertRow(start_time_utc, end, FALSE)
                /\ request' = RowRequest("save", start, end, 200, next_id)
    /\ UNCHANGED others

\* POST /api/measurements without end_time: every active row is
\* deactivated and an active row is inserted (with start_time as sent).
\* float(total_cost) is evaluated after the deactivation.
SaveActive(start, total_cost) ==
    /\ IF FloatRaises(total_cost)
       THEN /\ measurements' = DeactivateAll(measurements)
            /\ request' = RowRequest("save", start, None, 500, 0)
            /\ UNCHANGED next_id
       ELSE /\ next_id <= MaxRows
            /\ measurements' = DeactivateAll(measurements) \cup
                  {[id |-> next_id, start_time |-> start, end_time |-> None,
                    is_active |-> TRUE]}
            /\ next_id' = next_id + 1
            /\ request' = RowRequest("save", start, None, 200, next_id)
    /\ UNCHANGED others

\* POST /api/measurements/active: the active rows take the start_time sent,
\* or, with no active row, one is inserted.
CreateActive(start, total_cost) ==
    /\ LET start_time_utc == normalize_to_utc(start)
           existing == ActiveRows(measurements)
       IN  IF FloatRaises(total_cost)
           THEN /\ measurements' =
                      IF existing # {} THEN measurements
                      ELSE DeactivateAll(measurements)
                /\ request' = RowRequest("create", start, None, 500, 0)
                /\ UNCHANGED next_id
           ELSE IF existing # {}
           THEN /\ measurements' =
                      {IF r.is_active
                       THEN [r EXCEPT !.start_time = start_time_utc]
                       ELSE r : r \in measurements}
                /\ request' = RowRequest("create", start, None, 200, 0)
                /\ UNCHANGED next_id
           ELSE /\ next_id <= MaxRows
                /\ measurements' = DeactivateAll(measurements) \cup
                      {[id |-> next_id, start_time |-> start_time_utc,
                        end_time |-> None, is_active |-> TRUE]}
                /\ next_id' = next_id + 1
                /\ request' = RowRequest("create", start, None, 200, next_id)
    /\ UNCHANGED others

\* POST or PUT /api/measurements/active without start_time: 400.
ActiveWithoutStart(op) ==
    /\ request' = RowRequest(op, None, None, 400, 0)
    /\ UNCHANGED <<measurements, next_id, others>>

\* PUT /api/measurements/active: total_cost and equipment of the active row
\* with this start_time are written; 404 if there is none.
UpdateActive(start, total_cost) ==
    /\ LET found == {r \in ActiveRows(measurements) : r.start_time = start}
       IN  request' = RowRequest("update", start, None,
                                 IF FloatRaises(total_cost) THEN 500
                                 ELSE IF found # {} THEN 200 ELSE 404, 0)
    /\ UNCHANGED <<measurements, next_id, others>>

\* DELETE /api/measurements/<id>: 404 if no row has the id.
DeleteMeasurement(id) ==
    /\ measurements' = {r \in measurements : r.id # id}
    /\ request' = RowRequest("delete", None, None,
                             IF \E r \in measurements : r.id = id
                             THEN 200 ELSE 404, 0)
    /\ UNCHANGED <<next_id, others>>

NextRows ==
    \/ \E end \in EndTimes \cup {None} : SaveWithoutStart(end)
    \/ \E start \in StartTimes : \E end \in EndTimes :
          \E total_cost \in CostValues : SaveEnded(start, end, total_cost)
    \/ \E start \in StartTimes : \E total_cost \in CostValues :
          SaveActive(start, total_cost)
    \/ \E start \in StartTimes : \E total_cost \in CostValues :
          CreateActive(start, total_cost)
    \/ \E op \in {"create", "update"} : ActiveWithoutStart(op)
    \/ \E start \in StartTimes : \E total_cost \in CostValues :
          UpdateActive(start, total_cost)
    \/ \E id \in 1..MaxRows : DeleteMeasurement(id)

SpecRows == Init /\ [][NextRows]_vars

--------------------------------------------------------------------------
(***************************************************************************)
(* SpecConc.  app.run() serves each request in a thread of its own and the *)
(* handlers take no lock, so they interleave between any two reads or      *)
(* writes of the globals.  One action is one such read or write, with the  *)
(* local computation that follows it.                                      *)
(***************************************************************************)

\* No handler is running.
Quiet == \A i \in Threads : pc[i] \in {"idle", "done"}

\* Thread i is free to take a request.
Free(i) == pc[i] = "idle" \/ Quiet

\* Thread i takes a request.  A request that arrives while no handler runs
\* opens a new round: base is the globals it finds, and the finished calls
\* of the round before are forgotten.
Start(i, op, arg, at) ==
    LET call == [NoCall EXCEPT !.op = op, !.arg = arg, !.t0 = now, !.t1 = now]
    IN  IF Quiet
        THEN /\ pc' = [j \in Threads |-> IF j = i THEN at ELSE "idle"]
             /\ loc' = [j \in Threads |-> IF j = i THEN call ELSE NoCall]
             /\ base' = Cur
        ELSE /\ pc' = [pc EXCEPT ![i] = at]
             /\ loc' = [loc EXCEPT ![i] = call]
             /\ UNCHANGED base

\* Thread i moves on to line `to`.
Goto(i, to) == pc' = [pc EXCEPT ![i] = to]

\* Thread i returns a response.
Return(i, command, status, code) ==
    /\ pc' = [pc EXCEPT ![i] = "done"]
    /\ loc' = [loc EXCEPT ![i].command = command, ![i].status = status,
                          ![i].code = code, ![i].t1 = now]

---- 
\* get_relay_control

G_Start(i) ==
    /\ Free(i)
    /\ Start(i, "poll", None, "g_if_pending")
    /\ UNCHANGED <<relay_state, pending_command, command_timestamp, now, observed>>

\* line 501: if pending_command ...
G_IfPending(i) ==
    /\ pc[i] = "g_if_pending"
    /\ Goto(i, IF pending_command # None THEN "g_if_timestamp" ELSE "g_command")
    /\ UNCHANGED <<relay_state, pending_command, command_timestamp, now,
                   loc, base, observed>>

\* line 501: ... and command_timestamp
G_IfTimestamp(i) ==
    /\ pc[i] = "g_if_timestamp"
    /\ Goto(i, IF command_timestamp # NoTime THEN "g_age" ELSE "g_command")
    /\ UNCHANGED <<relay_state, pending_command, command_timestamp, now,
                   loc, base, observed>>

\* line 502: datetime.now() - command_timestamp > timedelta(...); the
\* subtraction raises TypeError when command_timestamp has become None, and
\* the handler catches nothing: the request ends in a 500.
G_Age(i) ==
    /\ pc[i] = "g_age"
    /\ IF command_timestamp = NoTime
       THEN Return(i, None, None, 500)
       ELSE /\ Goto(i, IF Expired(command_timestamp, now)
                       THEN "g_clear_pending" ELSE "g_command")
            /\ UNCHANGED loc
    /\ UNCHANGED <<relay_state, pending_command, command_timestamp, now,
                   base, observed>>

\* line 504: pending_command = None
G_ClearPending(i) ==
    /\ pc[i] = "g_clear_pending"
    /\ pending_command' = None
    /\ Goto(i, "g_clear_timestamp")
    /\ UNCHANGED <<relay_state, command_timestamp, now, loc, base, observed>>

\* line 505: command_timestamp = None
G_ClearTimestamp(i) ==
    /\ pc[i] = "g_clear_timestamp"
    /\ command_timestamp' = NoTime
    /\ Goto(i, "g_command")
    /\ UNCHANGED <<relay_state, pending_command, now, loc, base, observed>>

\* line 510: 'command': pending_command
G_Command(i) ==
    /\ pc[i] = "g_command"
    /\ loc' = [loc EXCEPT ![i].command = pending_command]
    /\ Goto(i, "g_status")
    /\ UNCHANGED <<relay_state, pending_command, command_timestamp, now,
                   base, observed>>

\* lines 511-514: 'status': relay_state; return
G_Status(i) ==
    /\ pc[i] = "g_status"
    /\ Return(i, loc[i].command, relay_state, 200)
    /\ UNCHANGED <<relay_state, pending_command, command_timestamp, now,
                   base, observed>>

---- 
\* post_relay_control, 'status' in body

S_Start(i, v) ==
    /\ Free(i)
    /\ Start(i, "report", Normalize(v), "s_relay")
    /\ UNCHANGED <<relay_state, pending_command, command_timestamp, now, observed>>

\* line 529: relay_state = new_status
S_SetRelay(i) ==
    /\ pc[i] = "s_relay"
    /\ relay_state' = loc[i].arg
    /\ Goto(i, "s_if_match")
    /\ UNCHANGED <<pending_command, command_timestamp, now, loc, base, observed>>

\* line 533: if pending_command == new_status
S_IfMatch(i) ==
    /\ pc[i] = "s_if_match"
    /\ Goto(i, IF pending_command = loc[i].arg THEN "s_clear_pending" ELSE "s_return")
    /\ UNCHANGED <<relay_state, pending_command, command_timestamp, now,
                   loc, base, observed>>

\* line 535: pending_command = None
S_ClearPending(i) ==
    /\ pc[i] = "s_clear_pending"
    /\ pending_command' = None
    /\ Goto(i, "s_clear_timestamp")
    /\ UNCHANGED <<relay_state, command_timestamp, now, loc, base, observed>>

\* line 536: command_timestamp = None
S_ClearTimestamp(i) ==
    /\ pc[i] = "s_clear_timestamp"
    /\ command_timestamp' = NoTime
    /\ Goto(i, "s_return")
    /\ UNCHANGED <<relay_state, pending_command, now, loc, base, observed>>

\* lines 538-542: 'status': relay_state; return
S_Return(i) ==
    /\ pc[i] = "s_return"
    /\ Return(i, None, relay_state, 200)
    /\ UNCHANGED <<relay_state, pending_command, command_timestamp, now,
                   base, observed>>

---- 
\* post_relay_control, 'command' in body

C_Start(i, v) ==
    /\ Free(i)
    /\ Start(i, "issue", Normalize(v), "c_pending")
    /\ UNCHANGED <<relay_state, pending_command, command_timestamp, now, observed>>

\* line 547: pending_command = command
C_SetPending(i) ==
    /\ pc[i] = "c_pending"
    /\ pending_command' = loc[i].arg
    /\ Goto(i, "c_timestamp")
    /\ UNCHANGED <<relay_state, command_timestamp, now, loc, base, observed>>

\* line 548: command_timestamp = datetime.now()
C_SetTimestamp(i) ==
    /\ pc[i] = "c_timestamp"
    /\ command_timestamp' = now
    /\ Goto(i, "c_relay")
    /\ UNCHANGED <<relay_state, pending_command, now, loc, base, observed>>

\* line 549: relay_state = command
C_SetRelay(i) ==
    /\ pc[i] = "c_relay"
    /\ relay_state' = loc[i].arg
    /\ Goto(i, "c_return")
    /\ UNCHANGED <<pending_command, command_timestamp, now, loc, base, observed>>

\* lines 551-556: 'command': command, 'status': relay_state; return
C_Return(i) ==
    /\ pc[i] = "c_return"
    /\ Return(i, loc[i].arg, relay_state, 200)
    /\ UNCHANGED <<relay_state, pending_command, command_timestamp, now,
                   base, observed>>

NextConc ==
    \/ \E i \in Threads :
          \/ G_Start(i)
          \/ G_IfPending(i)
          \/ G_IfTimestamp(i)
          \/ G_Age(i)
          \/ G_ClearPending(i)
          \/ G_ClearTimestamp(i)
          \/ G_Command(i)
          \/ G_Status(i)
    \/ \E i \in Threads :
          \/ \E v \in RawValues : S_Start(i, v)
          \/ S_SetRelay(i)
          \/ S_IfMatch(i)
          \/ S_ClearPending(i)
          \/ S_ClearTimestamp(i)
          \/ S_Return(i)
    \/ \E i \in Threads :
          \/ \E v \in RawValues : C_Start(i, v)
          \/ C_SetPending(i)
          \/ C_SetTimestamp(i)
          \/ C_SetRelay(i)
          \/ C_Return(i)
    \/ \E d \in TickSteps : Tick(d)

SpecConc == Init /\ [][NextConc]_vars

--------------------------------------------------------------------------
\* Reading the window: Back(0) is the last call, Back(1) the one before.
Calls == Len(hist)

Back(k) == hist[Len(hist) - k]

Last == Back(0)

\* The last three calls were op0(a0), op1(a1), op2, with nothing in between.
Sequence3(op0, a0, op1, a1, op2) ==
    /\ Calls >= 3
    /\ Back(2).op = op0 /\ Back(2).arg = a0
    /\ Back(1).op = op1 /\ Back(1).arg = a1
    /\ Back(0).op = op2

--------------------------------------------------------------------------
\* Serial runs of the calls of a round, to compare the threads with.

\* The call c run as a whole at time t from the globals s.
Whole(s, c, t) ==
    IF c.op = "poll" THEN GetRelayControl(s, t)
    ELSE IF c.op = "report" THEN PostStatus(s, c.arg)
    ELSE PostCommand(s, c.arg, t)

\* The times at which thread i's call may take its place in a serial order:
\* from its start to its return.
Span(i) == loc[i].t0 .. (IF pc[i] = "done" THEN loc[i].t1 ELSE now)

\* The globals after any of the calls of `todo`, in any order, from s.
RECURSIVE Reach(_, _)
Reach(s, todo) ==
    {s} \cup UNION { Reach(Whole(s, loc[j], t).state, todo \ {j}) :
                        <<j, t>> \in { <<k, u>> \in todo \X (0..MaxTime) : u \in Span(k) } }

\* Some order of all the calls of `todo`, from s, gives every call the
\* response its thread returned and ends in the globals as they are.
RECURSIVE Serial(_, _)
Serial(s, todo) ==
    IF todo = {} THEN s = Cur
    ELSE \E j \in todo : \E t \in Span(j) :
            LET out == Whole(s, loc[j], t)
            IN  /\ loc[j].code = 200
                /\ out.command = loc[j].command
                /\ out.status = loc[j].status
                /\ Serial(out.state, todo \ {j})

Started == {i \in Threads : pc[i] # "idle"}

Finished == {i \in Threads : pc[i] = "done"}

\* C1: with the handlers interleaving between the single reads and writes
\* of the globals, every GET response shows a (command, status) pair that is
\* the coordinator state before or after some whole operation: the pair a
\* whole PollPending returns after some of the other calls of the round ran
\* as wholes.  A reader never sees a newly set or cleared pending command
\* with the relay state from before the update.
C1_PollSeesConsistentPair ==
    \A i \in Finished :
        (loc[i].op = "poll" /\ loc[i].code = 200) =>
            \E s \in Reach(base, Started \ {i}) : \E t \in Span(i) :
                LET out == GetRelayControl(s, t)
                IN  out.command = loc[i].command /\ out.status = loc[i].status

\* A poll that cleared the pending command while the stored timestamp is one
\* a concurrent IssueCommand wrote after the poll's expiry test (its age is
\* within the timeout): the poll has cleared the newer command.
ClearedNewerCommand ==
    \E i \in Threads :
        /\ pc[i] = "g_clear_timestamp"
        /\ command_timestamp # NoTime
        /\ ~Expired(command_timestamp, now)

\* C2: IssueCommand, ReportStatus and PollPending are atomic with respect to
\* each other: whenever the handlers of a round have all returned, the
\* globals and every response are those of some serial order of the same
\* calls; and a PollPending that decided to expire an old command never
\* clears a newer one that is within its timeout.
C2_HandlersAreAtomic ==
    /\ (Quiet /\ Finished # {}) => Serial(base, Finished)
    /\ ~ClearedNewerCommand

--------------------------------------------------------------------------
\* C3: IssueCommand(t), from any prior state, leaves pending_command = t,
\* command_timestamp = the time of the call and relay_state = t, and its
\* response carries command = t and status = t.
C3_IssueCommandSetsAll ==
    (Calls >= 1 /\ Last.op = "issue") =>
        /\ pending_command = Last.arg
        /\ command_timestamp = Last.time
        /\ relay_state = Last.arg
        /\ Last.command = Last.arg
        /\ Last.status = Last.arg

\* An IssueCommand(off) that overwrote an older pending 'on' while the relay
\* was 'on'.
C3_Witness ==
    /\ Calls >= 1 /\ Last.op = "issue" /\ Last.arg = "off"
    /\ pre.relay = "on" /\ pre.pending = "on" /\ pre.ts < Last.time
    /\ pending_command = "off" /\ relay_state = "off"

\* C4: ReportStatus(r), from any prior state, sets relay_state to r and
\* returns status = r; a pending command with target r is cleared together
\* with its timestamp, so afterwards the pending command is absent or has
\* the target opposite to r.
C4_ReportStatusSetsAndConfirms ==
    (Calls >= 1 /\ Last.op = "report") =>
        /\ relay_state = Last.arg
        /\ Last.status = Last.arg
        /\ pre.pending = Last.arg =>
              (pending_command = None /\ command_timestamp = NoTime)
        /\ pending_command \in {None, Opposite(Last.arg)}
        /\ pending_command = None <=> command_timestamp = NoTime

\* A ReportStatus(on) that confirmed a pending 'on' while relay_state was
\* 'off' (a mismatching report had come first).
C4_Witness ==
    /\ Calls >= 1 /\ Last.op = "report" /\ Last.arg = "on"
    /\ pre.pending = "on" /\ pre.ts # NoTime /\ pre.relay = "off"
    /\ pending_command = None /\ relay_state = "on"

\* C5: ReportStatus(r) with a pending command of target t # r leaves the
\* pending command's target and issue timestamp unchanged while relay_state
\* becomes r; after IssueCommand(on), IssueCommand(off), a late
\* ReportStatus(on) does not clear the outstanding 'off' command.
C5_MismatchKeepsPending ==
    /\ (Calls >= 1 /\ Last.op = "report" /\ pre.pending = Opposite(Last.arg)) =>
          /\ pending_command = pre.pending
          /\ command_timestamp = pre.ts
          /\ relay_state = Last.arg
    /\ Sequence3("issue", "on", "issue", "off", "report") /\ Last.arg = "on" =>
          /\ pending_command = "off"
          /\ command_timestamp = Back(1).time

\* IssueCommand(on), IssueCommand(off), then ReportStatus(on) later on.
C5_Witness ==
    /\ Sequence3("issue", "on", "issue", "off", "report") /\ Last.arg = "on"
    /\ Last.time > Back(1).time
    /\ pending_command = "off" /\ relay_state = "on"

\* C6: PollPending first clears the pending command and its timestamp
\* exactly when one exists and now - issuedAt is strictly greater than the
\* 30-second timeout, then returns the remaining pending command (or null)
\* and relay_state; a command whose age equals the timeout is still pending.
C6_PollExpiresStrictlyAfterTimeout ==
    (Calls >= 1 /\ Last.op = "poll") =>
        LET old == pre.pending # None /\ Last.time - pre.ts > 30
        IN  /\ old => (pending_command = None /\ command_timestamp = NoTime)
            /\ ~old => (pending_command = pre.pending /\ command_timestamp = pre.ts)
            /\ relay_state = pre.relay
            /\ Last.command = pending_command
            /\ Last.status = relay_state

\* A poll exactly COMMAND_TIMEOUT_SECONDS after the command, which returns it.
C6_Witness ==
    /\ Calls >= 1 /\ Last.op = "poll"
    /\ pre.pending = "on" /\ Last.time - pre.ts = COMMAND_TIMEOUT_SECONDS
    /\ Last.command = "on"

\* C7: for every sequence of operations and every passage of time, a
\* PollPending response with a non-null command reports a command whose age
\* (time of the poll minus its issue timestamp) is at most the timeout.
C7_ReturnedCommandWithinTimeout ==
    (Calls >= 1 /\ Last.op = "poll" /\ Last.command # None) =>
        /\ command_timestamp # NoTime
        /\ command_timestamp = issued_at
        /\ Last.time - issued_at <= COMMAND_TIMEOUT_SECONDS

\* A second command, issued after the first one expired, polled at the last
\* second of its life.
C7_Witness ==
    /\ Calls >= 1 /\ Last.op = "poll" /\ Last.command # None
    /\ issued_at > COMMAND_TIMEOUT_SECONDS
    /\ Last.time - issued_at = COMMAND_TIMEOUT_SECONDS

\* C8: IssueCommand(t) at time T followed by PollPending at any time later
\* than T + timeout returns command = null, whatever ReportStatus calls
\* (matching or not) were made in between.
C8_PollAfterTimeoutReturnsNull ==
    (/\ Calls >= 1 /\ Last.op = "poll"
     /\ issued_at # NoTime
     /\ Last.time > issued_at + COMMAND_TIMEOUT_SECONDS) =>
        /\ Last.command = None
        /\ pending_command = None

\* IssueCommand(on), a mismatching ReportStatus(off), and a poll more than
\* the timeout after the command.
C8_Witness ==
    /\ Sequence3("issue", "on", "report", "off", "poll")
    /\ Back(2).time = issued_at
    /\ pre.pending = "on"
    /\ Last.time > issued_at + COMMAND_TIMEOUT_SECONDS
    /\ Last.command = None

\* C9 as claimed: IssueCommand(ON), ReportStatus(OFF), PollPending returns
\* pendingCommand.target = ON and relayState = OFF.
C9_AsClaimed ==
    Sequence3("issue", "on", "report", "off", "poll") =>
        (Last.command = "on" /\ Last.status = "off")

\* C9 as amended: IssueCommand(ON), ReportStatus(OFF), PollPending returns
\* command = ON and status = OFF when the poll comes no later than the
\* timeout after the IssueCommand.
C9_MismatchThenPollWithinTimeout ==
    (/\ Sequence3("issue", "on", "report", "off", "poll")
     /\ Last.time - Back(2).time <= COMMAND_TIMEOUT_SECONDS) =>
        (Last.command = "on" /\ Last.status = "off")

\* The three calls with the poll exactly at the timeout.
C9_Witness ==
    /\ Sequence3("issue", "on", "report", "off", "poll")
    /\ Last.time - Back(2).time = COMMAND_TIMEOUT_SECONDS
    /\ Back(1).time > Back(2).time
    /\ Last.command = "on" /\ Last.status = "off"

\* C10: for each t and from any prior state, IssueCommand(t), ReportStatus(t),
\* PollPending returns command = null and status = t, whatever the time
\* elapsed between the calls.
C10_ConfirmedThenPollReturnsNull ==
    \A t \in {"on", "off"} :
        Sequence3("issue", t, "report", t, "poll") =>
            (Last.command = None /\ Last.status = t)

\* The three calls for t = off, the poll coming at once after the report.
C10_Witness ==
    /\ Sequence3("issue", "off", "report", "off", "poll")
    /\ Last.time = Back(1).time
    /\ Back(1).time - Back(2).time = COMMAND_TIMEOUT_SECONDS
    /\ Last.command = None /\ Last.status = "off"

\* C11: for each t and from any prior state, IssueCommand(t) followed
\* directly by PollPending no more than the timeout later returns
\* command = t and status = t.
C11_IssueThenPollWithinTimeout ==
    (/\ Calls >= 2 /\ Back(1).op = "issue" /\ Last.op = "poll"
     /\ Last.time - Back(1).time <= COMMAND_TIMEOUT_SECONDS) =>
        (Last.command = Back(1).arg /\ Last.status = Back(1).arg)

\* IssueCommand(off) and a poll exactly the timeout later.
C11_Witness ==
    /\ Calls >= 2 /\ Back(1).op = "issue" /\ Back(1).arg = "off"
    /\ Last.op = "poll"
    /\ Last.time - Back(1).time = COMMAND_TIMEOUT_SECONDS
    /\ Last.command = "off" /\ Last.status = "off"

\* C12: IssueCommand(t2) while a command t1 is pending overwrites it: the one
\* pending command has target t2 and the timestamp of the second call, and a
\* later ReportStatus(t1) with t1 # t2 does not clear it.
C12_LastWriterWins ==
    /\ (Calls >= 1 /\ Last.op = "issue" /\ pre.pending # None) =>
          /\ pending_command = Last.arg
          /\ command_timestamp = Last.time
          /\ relay_state = Last.arg
    /\ \A t1 \in {"on", "off"} :
          (Sequence3("issue", t1, "issue", Opposite(t1), "report")
              /\ Last.arg = t1) =>
                  /\ pending_command = Opposite(t1)
                  /\ command_timestamp = Back(1).time

\* A command 'off' that replaced, at a later time, a pending 'on'.
C12_Witness ==
    /\ Calls >= 2 /\ Back(1).op = "issue" /\ Back(1).arg = "on"
    /\ Last.op = "issue" /\ Last.arg = "off"
    /\ pre.pending = "on" /\ pre.ts = Back(1).time
    /\ Last.time > Back(1).time
    /\ pending_command = "off" /\ command_timestamp = Last.time

\* C13: from any state, IssueCommand(t) twice in a row yields the relay_state
\* and pending target of IssueCommand(t) once (and the same response); only
\* the issue timestamp differs: it is that of the second call.
C13_IssueCommandIdempotent ==
    (/\ Calls >= 2 /\ Back(1).op = "issue" /\ Last.op = "issue"
     /\ Back(1).arg = Last.arg) =>
        /\ relay_state = pre.relay
        /\ pending_command = pre.pending
        /\ pre.ts = Back(1).time
        /\ command_timestamp = Last.time
        /\ Last.command = Back(1).command
        /\ Last.status = Back(1).status

\* The same command twice, the second time later.
C13_Witness ==
    /\ Calls >= 2 /\ Back(1).op = "issue" /\ Last.op = "issue"
    /\ Back(1).arg = "on" /\ Last.arg = "on"
    /\ Last.time > Back(1).time
    /\ command_timestamp = Last.time

\* C14: from the start state {relay_state off, pending null},
\* IssueCommand(ON) at t0 gives {relay_state on, pending (on, t0)};
\* PollPending at t0+5 returns {command "on", status "on"}; ReportStatus(ON)
\* at t0+6 returns status "on" and clears pending; PollPending at t0+7
\* returns {command null, status "on"}.  (In the last step the window holds
\* the three calls after the command, whose time is issued_at.)
C14_WorkedExample ==
    /\ (Calls = 1 /\ Last.op = "issue" /\ Last.arg = "on") =>
          /\ pre = State("off", None, NoTime)
          /\ Cur = State("on", "on", Last.time)
    /\ (/\ Calls >= 2 /\ Back(1).op = "issue" /\ Back(1).arg = "on"
        /\ Last.op = "poll" /\ Last.time = Back(1).time + 5) =>
          /\ Last.command = "on" /\ Last.status = "on"
          /\ Cur = State("on", "on", Back(1).time)
    /\ (/\ Sequence3("issue", "on", "poll", None, "report") /\ Last.arg = "on"
        /\ Back(1).time = Back(2).time + 5
        /\ Last.time = Back(2).time + 6) =>
          /\ pre.pending = "on"
          /\ Last.status = "on"
          /\ Cur = State("on", None, NoTime)
    /\ (/\ Sequence3("poll", None, "report", "on", "poll")
        /\ Back(2).command = "on" /\ Back(2).status = "on"
        /\ issued_at # NoTime
        /\ Back(2).time = issued_at + 5
        /\ Back(1).time = issued_at + 6
        /\ Last.time = issued_at + 7) =>
          /\ Last.command = None /\ Last.status = "on"
          /\ Cur = State("on", None, NoTime)

\* The end of the example: the command of time 0 polled at 5, confirmed at 6
\* and polled again at 7.
C14_Witness ==
    /\ Sequence3("poll", None, "report", "on", "poll")
    /\ Back(2).command = "on" /\ Back(2).status = "on"
    /\ issued_at = 0
    /\ Back(2).time = 5 /\ Back(1).time = 6 /\ Last.time = 7 /\ now = 7
    /\ Last.command = None /\ Last.status = "on"

\* C15: in every reachable state relay_state is 'on' or 'off' (initially
\* 'off') and pending_command is None, 'on' or 'off' (initially None), so at
\* most one command is outstanding; every GET response has command in
\* {null, "on", "off"} and status in {"on", "off"}.
C15_TypeInvariant ==
    /\ relay_state \in {"on", "off"}
    /\ pending_command \in {None, "on", "off"}
    /\ command_timestamp \in {NoTime} \cup (0..now)
    /\ Calls = 0 => (relay_state = "off" /\ pending_command = None)
    /\ \A k \in 1..Calls :
          hist[k].op = "poll" =>
              /\ hist[k].command \in {None, "on", "off"}
              /\ hist[k].status \in {"on", "off"}

\* A poll that shows a pending 'off' with the relay reported 'on'.
C15_Witness ==
    /\ Calls >= 1 /\ Last.op = "poll"
    /\ Last.command = "off" /\ Last.status = "on"
    /\ pending_command = "off" /\ relay_state = "on"

\* C16: the pending command goes from absent to present only by
\* IssueCommand, and from present to absent only by a ReportStatus of its
\* target or by a PollPending that finds its age above the timeout;
\* ReportStatus and PollPending never create a pending command or change
\* its target, and from EMPTY both leave it EMPTY.
C16_LifecycleClosed ==
    Calls >= 1 =>
        /\ (pre.pending = None /\ pending_command # None) => Last.op = "issue"
        /\ (pre.pending # None /\ pending_command = None) =>
              \/ Last.op = "report" /\ Last.arg = pre.pending
              \/ Last.op = "poll" /\ Last.time - pre.ts > COMMAND_TIMEOUT_SECONDS
        /\ Last.op \in {"report", "poll"} =>
              /\ pending_command \in {None, pre.pending}
              /\ command_timestamp \in {NoTime, pre.ts}
        /\ pending_command = None <=> command_timestamp = NoTime

\* A poll that found the command older than the timeout and removed it.
C16_Witness ==
    /\ Calls >= 1 /\ Last.op = "poll"
    /\ pre.pending = "off" /\ Last.time - pre.ts = COMMAND_TIMEOUT_SECONDS + 1
    /\ pending_command = None

\* The step is a call of the handler op.
Calling(op) == hist' # hist /\ Last'.op = op

\* A command is stored that is older than the timeout.
Stale == pending_command # None /\ now - command_timestamp > COMMAND_TIMEOUT_SECONDS

\* C17: expiry happens only inside PollPending.  The passage of time alone
\* changes nothing; a command older than the timeout stays stored until the
\* next PollPending, and until then a matching ReportStatus clears it as a
\* confirmation, a mismatching one leaves it in place, and an IssueCommand
\* replaces it.
C17_ExpiryOnlyAtPoll ==
    [][ /\ now' # now =>
              UNCHANGED <<relay_state, pending_command, command_timestamp>>
        /\ (Stale /\ pending_command' # pending_command) =>
              \/ Calling("poll") /\ pending_command' = None
              \/ Calling("report") /\ Last'.arg = pending_command
                                  /\ pending_command' = None
              \/ Calling("issue") /\ pending_command' = Last'.arg
        /\ (Stale /\ Calling("report")) =>
              IF Last'.arg = pending_command
              THEN pending_command' = None /\ command_timestamp' = NoTime
              ELSE UNCHANGED <<pending_command, command_timestamp>>
        /\ (Stale /\ Calling("issue")) =>
              (pending_command' = Last'.arg /\ command_timestamp' = now)
      ]_vars

\* A report that confirmed a command older than the timeout, which no poll
\* had inspected since.
C17_Witness ==
    /\ Calls >= 2 /\ Back(1).op = "issue" /\ Last.op = "report"
    /\ pre.pending = Last.arg
    /\ Last.time - pre.ts > COMMAND_TIMEOUT_SECONDS
    /\ pending_command = None

\* C18: a stale command cannot wedge the coordinator: once no further
\* IssueCommand occurs, with time advancing and PollPending being called
\* again and again, the pending command is eventually EMPTY and stays EMPTY,
\* even if no ReportStatus ever arrives.
C18_StaleCommandGoesAway == <>[](pending_command = None /\ command_timestamp = NoTime)

\* A command that no report touched, removed by a poll after the timeout.
C18_Witness ==
    /\ Calls >= 2 /\ Back(1).op = "issue" /\ Last.op = "poll"
    /\ pre.pending = Back(1).arg /\ pre.ts = Back(1).time
    /\ Last.time > Back(1).time + COMMAND_TIMEOUT_SECONDS
    /\ pending_command = None

\* Polling does not consume a command: the command a poll returns is still
\* stored, with its timestamp, when the poll has returned.
PollKeepsCommand ==
    (Calls >= 1 /\ Last.op = "poll" /\ Last.command # None) =>
        /\ pending_command = Last.command
        /\ command_timestamp = pre.ts
        /\ pre.pending = Last.command

C20_PollLeavesRelayState ==
    (Calls >= 1 /\ Last.op = "poll") =>
        /\ relay_state = pre.relay
        /\ (pre.pending = None \/ Last.time - pre.ts <= COMMAND_TIMEOUT_SECONDS) =>
              Cur = pre
        /\ (Calls >= 2 /\ Back(1).op = "poll" /\ Back(1).time = Last.time) =>
              (Last.command = Back(1).command /\ Last.status = Back(1).status)
        /\ (Calls >= 2 /\ Back(1).op = "issue" /\ Last.command = None) =>
              (relay_state = Back(1).arg /\ Last.status = Back(1).arg)

\* IssueCommand(on) that no device confirmed, expired by the poll: the
\* status still reads 'on'.
C20_Witness ==
    /\ Calls >= 2 /\ Back(1).op = "issue" /\ Back(1).arg = "on"
    /\ Last.op = "poll" /\ Last.command = None /\ Last.status = "on"
    /\ pre.pending = "on" /\ pre.relay = "on"
    /\ relay_state = "on"

--------------------------------------------------------------------------
\* The last request was a POST whose body is a JSON object.
PostedObject == request.body.kind = "object"

\* C21: a POST whose `status` is anything but the exact string "on" ("ON",
\* "off", true, null, a number) is answered 200 and does what
\* ReportStatus(OFF) does; a POST without `status` whose `command` is
\* anything but "on" is answered 200 and does what IssueCommand(OFF) does.
C21_NormalizedNotRejected ==
    LET b == request.body
    IN  /\ (PostedObject /\ b.status \notin {Absent, "on"}) =>
              LET off == PostStatus(pre, "off")
              IN  /\ request.code = 200
                  /\ Cur = off.state
                  /\ relay_state = "off"
                  /\ request.status = "off"
        /\ (PostedObject /\ b.status = Absent /\ b.command \notin {Absent, "on"}) =>
              LET off == PostCommand(pre, "off", request.time)
              IN  /\ request.code = 200
                  /\ Cur = off.state
                  /\ Cur = State("off", "off", request.time)
                  /\ request.command = "off" /\ request.status = "off"

\* {"command": "ON"} sent while 'on' was pending and the relay 'on': the
\* command 'off' replaced it.
C21_Witness ==
    /\ PostedObject
    /\ request.body.status = Absent /\ request.body.command = "ON"
    /\ pre.relay = "on" /\ pre.pending = "on" /\ pre.ts < request.time
    /\ request.code = 200
    /\ Cur = State("off", "off", request.time)

\* C22: a POST whose JSON object has neither `status` nor `command` is
\* answered 400 and leaves relay_state, pending_command and
\* command_timestamp as they were.
C22_NeitherKeyRejected ==
    (PostedObject /\ request.body.status = Absent /\ request.body.command = Absent) =>
        /\ request.code = 400
        /\ request.error = "Invalid request body"
        /\ Cur = pre

\* An object without the two keys, sent while a command was pending.
C22_Witness ==
    /\ PostedObject
    /\ request.body.status = Absent /\ request.body.command = Absent
    /\ request.code = 400
    /\ pre.pending = "on" /\ pre.relay = "on"
    /\ Cur = pre

\* C23: no operation blocks or fails: with the handlers running in request
\* threads, every handler that has started has a next step that waits for no
\* other handler, device or timer, and every handler that has returned has
\* returned a 200 response (no operation returns an error).
C23_NoOperationBlocksOrFails ==
    \A i \in Threads :
        /\ pc[i] \notin {"idle", "done"} =>
              ENABLED ( \/ G_IfPending(i) \/ G_IfTimestamp(i) \/ G_Age(i)
                        \/ G_ClearPending(i) \/ G_ClearTimestamp(i)
                        \/ G_Command(i) \/ G_Status(i)
                        \/ S_SetRelay(i) \/ S_IfMatch(i) \/ S_ClearPending(i)
                        \/ S_ClearTimestamp(i) \/ S_Return(i)
                        \/ C_SetPending(i) \/ C_SetTimestamp(i)
                        \/ C_SetRelay(i) \/ C_Return(i) )
        /\ pc[i] = "done" => loc[i].code = 200

\* C24: with every handler run as a whole, pending_command is None exactly
\* when command_timestamp is None, in every reachable state: the target and
\* its issue time are set together and cleared together.
C24_PendingIffTimestamp ==
    /\ pending_command = None <=> command_timestamp = NoTime
    /\ Calls >= 1 => (pre.pending = None <=> pre.ts = NoTime)

\* A command set, cleared by its confirmation and set again later.
C24_Witness ==
    /\ Sequence3("issue", "on", "report", "on", "issue") /\ Last.arg = "off"
    /\ pre.pending = None /\ pre.ts = NoTime
    /\ Last.time > Back(2).time
    /\ pending_command = "off" /\ command_timestamp = Last.time

\* C25: a POST with both `status` and `command` is handled as ReportStatus
\* only: the globals and the response are those of ReportStatus(status), the
\* command creates or overwrites no pending command and the issue timestamp
\* is not reset.
C25_BothKeysIsReport ==
    (PostedObject /\ request.body.status # Absent /\ request.body.command # Absent) =>
        LET report == PostStatus(pre, request.body.status)
        IN  /\ request.code = 200
            /\ Cur = report.state
            /\ request.status = report.status /\ request.command = None
            /\ pending_command \in {None, pre.pending}
            /\ command_timestamp \in {NoTime, pre.ts}
            /\ pending_command # None =>
                  (pending_command = pre.pending /\ command_timestamp = pre.ts)

\* {"status": "off", "command": "off"} sent after the pending 'on' was
\* issued: 'on' stays pending with its timestamp.
C25_Witness ==
    /\ PostedObject
    /\ request.body.status = "off" /\ request.body.command = "off"
    /\ pre.pending = "on" /\ pre.ts < request.time
    /\ Cur = State("off", "on", pre.ts)

\* C26: with every handler run as a whole, while a command is pending and no
\* ReportStatus has come since the most recent IssueCommand, relay_state is
\* the pending target; relay_state differs from the pending target only when
\* a ReportStatus of the other state has followed that IssueCommand.
C26_RelayFollowsPendingUntilReport ==
    pending_command # None =>
        /\ reports = {} => relay_state = pending_command
        /\ relay_state # pending_command =>
              (reports = {relay_state} /\ relay_state = Opposite(pending_command))

\* A command 'on', a report 'off' after it, and a poll later on that still
\* finds the command: the relay is 'off' with 'on' pending.
C26_Witness ==
    /\ pending_command = "on" /\ relay_state = "off" /\ reports = {"off"}
    /\ request.body = NoBody /\ request.code = 200 /\ request.command = "on"
    /\ request.time = issued_at + COMMAND_TIMEOUT_SECONDS

\* C27: every POST that ends in a 400 leaves relay_state, pending_command
\* and command_timestamp as they were, whether the body is missing or no
\* JSON, is null, a number, a string or a list, or is an object without the
\* two keys; and every body that is no object ends in a 400.
C27_FailedPostChangesNothing ==
    /\ request.code = 400 => Cur = pre
    /\ request.body \in NonObjects => request.code = 400

\* The list ["status"], which passes the test `'status' in body`, sent while
\* the relay was 'on' and 'off' was pending.
C27_Witness ==
    /\ request.body.kind = "list" /\ request.body.text = "status"
    /\ request.code = 400 /\ request.error = "Invalid JSON"
    /\ pre = State("on", "off", issued_at) /\ issued_at # NoTime
    /\ Cur = pre

--------------------------------------------------------------------------
\* C28: with every handler run as a whole and a table that starts with no
\* active row, after any sequence of save_measurement (with or without
\* end_time), create_active_measurement, update_active_measurement and
\* delete_measurement at most one row has is_active = TRUE, and the row a
\* save_measurement with end_time updated or inserted is not active.
C28_AtMostOneActive ==
    /\ Cardinality(ActiveRows(measurements)) <= 1
    /\ (request.op = "save" /\ request.end_time # None /\ request.code = 200) =>
          /\ request.touched # 0
          /\ \A r \in measurements :
                r.id = request.touched =>
                    (~r.is_active /\ r.end_time = request.end_time)

\* Row 1 was deactivated when row 2 was started; row 2 has been ended by a
\* save_measurement with its start_time and an end_time.
C28_Witness ==
    /\ request.op = "save" /\ request.end_time # None /\ request.code = 200
    /\ request.start_time = "11:00Z"
    /\ \E r \in measurements :
          /\ r.id = request.touched /\ r.id = 2
          /\ r.start_time = "11:00Z" /\ ~r.is_active
    /\ \E r \in measurements : r.id = 1 /\ ~r.is_active /\ r.end_time = None
    /\ ActiveRows(measurements) = {}

--------------------------------------------------------------------------
\* The timestamps of the cache fall from the first entry to the last.
NewestFirst(readings) ==
    \A i \in 1..(Len(readings) - 1) :
        readings[i].timestamp > readings[i + 1].timestamp

\* The first n entries of the sequence.
Take(readings, n) ==
    IF Len(readings) > n THEN SubSeq(readings, 1, n) ELSE readings

\* C29: after any sequence of POST /api/arduino-data, recent_readings holds
\* at most 100 entries, newest first; an accepted reading is put at index 0
\* and the entries beyond the first 100 are dropped; a request answered 400
\* (current missing or no number) leaves the cache as it was.
C29_CacheCappedNewestFirst ==
    /\ [](/\ Len(recent_readings) <= CacheLimit
          /\ NewestFirst(recent_readings))
    /\ [][ /\ request'.code = 200 =>
                 /\ recent_readings' =
                       Take(<<[timestamp |-> request'.time]>> \o recent_readings,
                            CacheLimit)
                 /\ \A i \in 1..Len(recent_readings) :
                       recent_readings[i].timestamp < request'.time
           /\ request'.code = 400 =>
                 /\ UNCHANGED recent_readings
                 /\ request'.body.kind = "object"
                 /\ request'.body.current \in {Absent, "abc", "null"}
         ]_vars

\* A full cache that has dropped its oldest entries, and a reading without
\* 'current' rejected after that.
C29_Witness ==
    /\ Len(recent_readings) = CacheLimit
    /\ recent_readings[1].timestamp = CacheLimit + 2
    /\ recent_readings[CacheLimit].timestamp = 3
    /\ request.code = 400 /\ request.body.current = Absent
    /\ received = CacheLimit + 2

====
